---------------------------- MODULE Spec2Model ----------------------------
(***************************************************************************)
(* Model of the two download organizers of ai-coding-tips/tip_4:           *)
(*   downloads_organizer_planned.py  ("planned")                           *)
(*   organize_downloads_vibed.py     ("vibed")                             *)
(* File names, extensions and folder names are sequences of one-character  *)
(* strings, so suffix/stem/lower()/f-string formatting are computed         *)
(* as pathlib and str compute them.                                       *)
(***************************************************************************)
EXTENDS Integers, Sequences, FiniteSets, TLC

(* ---- bounds of the model ---- *)
MaxTop == 2
MaxPre == 2
MaxRuns == 2
MaxFail == 2

(* ---- category names (vibed lines 20-29 and 52; planned lines 16-20) ---- *)
Images == <<"I","m","a","g","e","s">>
Documents == <<"D","o","c","u","m","e","n","t","s">>
Spreadsheets == <<"S","p","r","e","a","d","s","h","e","e","t","s">>
Presentations == <<"P","r","e","s","e","n","t","a","t","i","o","n","s">>
Videos == <<"V","i","d","e","o","s">>
Audio == <<"A","u","d","i","o">>
Archives == <<"A","r","c","h","i","v","e","s">>
Executables == <<"E","x","e","c","u","t","a","b","l","e","s">>
Code == <<"C","o","d","e">>
Ebooks == <<"E","b","o","o","k","s">>
Others == <<"O","t","h","e","r","s">>

(* the dict of get_file_categories(), in insertion order *)
get_file_categories ==
  <<
    [category |-> Images, extensions |->
      {<<".","j","p","g">>, <<".","j","p","e","g">>, <<".","p","n","g">>, <<".","g","i","f">>, <<".","b","m","p">>, <<".","t","i","f","f">>, <<".","s","v","g">>, <<".","w","e","b","p">>, <<".","i","c","o">>}],
    [category |-> Documents, extensions |->
      {<<".","p","d","f">>, <<".","d","o","c">>, <<".","d","o","c","x">>, <<".","t","x","t">>, <<".","r","t","f">>, <<".","o","d","t">>, <<".","p","a","g","e","s">>, <<".","t","e","x">>}],
    [category |-> Spreadsheets, extensions |->
      {<<".","x","l","s">>, <<".","x","l","s","x">>, <<".","c","s","v">>, <<".","o","d","s">>, <<".","n","u","m","b","e","r","s">>}],
    [category |-> Presentations, extensions |->
      {<<".","p","p","t">>, <<".","p","p","t","x">>, <<".","o","d","p">>, <<".","k","e","y">>}],
    [category |-> Videos, extensions |->
      {<<".","m","p","4">>, <<".","a","v","i">>, <<".","m","k","v">>, <<".","m","o","v">>, <<".","w","m","v">>, <<".","f","l","v">>, <<".","w","e","b","m">>, <<".","m","4","v">>}],
    [category |-> Audio, extensions |->
      {<<".","m","p","3">>, <<".","w","a","v">>, <<".","f","l","a","c">>, <<".","a","a","c">>, <<".","o","g","g">>, <<".","w","m","a">>, <<".","m","4","a">>}],
    [category |-> Archives, extensions |->
      {<<".","z","i","p">>, <<".","r","a","r">>, <<".","7","z">>, <<".","t","a","r">>, <<".","g","z">>, <<".","b","z","2">>, <<".","x","z">>}],
    [category |-> Executables, extensions |->
      {<<".","e","x","e">>, <<".","m","s","i">>, <<".","d","e","b">>, <<".","r","p","m">>, <<".","d","m","g">>, <<".","p","k","g">>, <<".","a","p","p">>}],
    [category |-> Code, extensions |->
      {<<".","p","y">>, <<".","j","s">>, <<".","h","t","m","l">>, <<".","c","s","s">>, <<".","j","a","v","a">>, <<".","c","p","p">>, <<".","c">>, <<".","p","h","p">>, <<".","r","b">>, <<".","g","o">>, <<".","r","s">>}],
    [category |-> Ebooks, extensions |->
      {<<".","e","p","u","b">>, <<".","m","o","b","i">>, <<".","a","z","w">>, <<".","a","z","w","3">>, <<".","f","b","2">>}]
  >>

(* the dict folder_mapping of the planned organizer, in insertion order *)
folder_mapping ==
  <<
    [ext |-> <<".","p","d","f">>, folder |-> Documents],
    [ext |-> <<".","j","p","g">>, folder |-> Images],
    [ext |-> <<".","j","p","e","g">>, folder |-> Images],
    [ext |-> <<".","m","p","4">>, folder |-> Videos],
    [ext |-> <<".","z","i","p">>, folder |-> Archives]
  >>

(* ---- str and pathlib primitives the code uses ---- *)
UpperChars == <<"A","B","C","D","E","F","G","H","I","J","K","L","M","N","O","P","Q","R","S","T","U","V","W","X","Y","Z">>
LowerChars == <<"a","b","c","d","e","f","g","h","i","j","k","l","m","n","o","p","q","r","s","t","u","v","w","x","y","z">>
DigitChars == <<"0","1","2","3","4","5","6","7","8","9">>

(* str.lower() *)
lower(s) ==
  [i \in 1..Len(s) |->
     IF \E k \in 1..26 : UpperChars[k] = s[i]
     THEN LowerChars[CHOOSE k \in 1..26 : UpperChars[k] = s[i]]
     ELSE s[i]]

(* str(counter) inside the f-string: decimal digits of a positive integer *)
RECURSIVE str(_)
str(n) == IF n < 10 THEN <<DigitChars[n + 1]>>
          ELSE str(n \div 10) \o <<DigitChars[(n % 10) + 1]>>

(* name.rfind('.'), 1-based; 0 when there is no dot *)
rfind_dot(name) ==
  IF \E i \in 1..Len(name) : name[i] = "."
  THEN CHOOSE i \in 1..Len(name) :
         name[i] = "." /\ \A j \in (i+1)..Len(name) : name[j] # "."
  ELSE 0

(* PurePath.suffix: the last dot starts the suffix unless it is the first *)
(* or the last character of the name                                      *)
suffix(name) ==
  LET i == rfind_dot(name)
  IN IF 1 < i /\ i < Len(name) THEN SubSeq(name, i, Len(name)) ELSE <<>>

(* PurePath.stem *)
stem(name) ==
  LET i == rfind_dot(name)
  IN IF 1 < i /\ i < Len(name) THEN SubSeq(name, 1, i - 1) ELSE name

(* ---- the filesystem under the target directory ---- *)
TOP == <<>>

Entry(parent, name, kind) ==
  [parent |-> parent, name |-> name, kind |-> kind, orig |-> <<parent, name>>]

(* Path.exists() of target/parent/name (parent = TOP: target/name) *)
exists(fsys, parent, name) ==
  \E e \in fsys : e.parent = parent /\ e.name = name

is_dir(fsys, parent, name) ==
  \E e \in fsys : e.parent = parent /\ e.name = name /\ e.kind = "dir"

IsFileMutant(fsys, name) ==
  exists(fsys, TOP, name)

(* Path.is_file() of a top-level path *)
is_file(fsys, name) ==
  \E e \in fsys : e.parent = TOP /\ e.name = name /\ e.kind = "file"

(* Path.mkdir(exist_ok=True) of target/name, the target existing *)
mkdir(fsys, name) ==
  IF is_dir(fsys, TOP, name) THEN fsys
  ELSE fsys \cup {Entry(TOP, name, "dir")}

MkdirRaisesMutant(homeDirs, tgt) == FALSE

(* mkdir without parents=True raises FileNotFoundError when the target *)
(* directory itself is missing                                         *)
MkdirRaises(homeDirs, tgt) == tgt \notin homeDirs

(* shutil.move(src, dst) that succeeds: os.rename, which replaces whatever *)
(* file is at dst                                                          *)
move(fsys, name, parent, newname) ==
  LET src == CHOOSE e \in fsys : e.parent = TOP /\ e.name = name
      gone == {e \in fsys : e.parent = parent /\ e.name = newname}
  IN ((fsys \ {src}) \ gone)
       \cup {[src EXCEPT !.parent = parent, !.name = newname]}

(* a move into a folder that does not exist can only raise *)
MoveCanSucceed(fsys, parent) == is_dir(fsys, TOP, parent)

(* the moves that raised so far *)
Raised(lg) == Cardinality({i \in 1..Len(lg) : lg[i].kind = "error"})

(* shutil.move raises or not as the environment decides; the model lets at *)
(* most MaxFail moves raise in one behaviour                               *)
MoveOutcomes(lg) == IF Raised(lg) < MaxFail THEN BOOLEAN ELSE {TRUE}

FolderNames ==
  <<Images, Documents, Spreadsheets, Presentations, Videos, Audio, Archives,
    Executables, Code, Ebooks, Others>>

Perms(S) ==
  {p \in [1..Cardinality(S) -> S] :
     \A i, j \in 1..Cardinality(S) : p[i] = p[j] => i = j}

(* Path.iterdir(): the names of the immediate entries, in an order the     *)
(* filesystem chooses.  Every order of the regular files is a listing; the *)
(* subfolders, which the loops only skip, come first in one fixed order.   *)
iterdir(fsys) ==
  {SelectSeq(FolderNames, LAMBDA n : is_dir(fsys, TOP, n)) \o p :
     p \in Perms({e.name : e \in {x \in fsys : x.parent = TOP /\ x.kind = "file"}})}

Range(f) == {f[i] : i \in DOMAIN f}

(* the loops run their body on regular files only (vibed line 73, planned  *)
(* line 30): the rest of a listing, up to its first regular file           *)
RECURSIVE next_file(_, _)
next_file(fsys, listing) ==
  IF listing = <<>> \/ is_file(fsys, Head(listing)) THEN listing
  ELSE next_file(fsys, Tail(listing))

NamesIn(fsys, parent) == {e.name : e \in {x \in fsys : x.parent = parent}}

(* ---- vibed: categorize_file ---- *)
RECURSIVE categorize_from(_, _, _)
categorize_from(file_extension, categories, i) ==
  IF i > Len(categories) THEN Others
  ELSE IF file_extension \in categories[i].extensions
       THEN categories[i].category
       ELSE categorize_from(file_extension, categories, i + 1)

categorize_file(name, categories) ==
  categorize_from(lower(suffix(name)), categories, 1)

(* ---- vibed: create_category_folders ---- *)
RECURSIVE mkdir_all(_, _, _)
mkdir_all(fsys, names, i) ==
  IF i > Len(names) THEN fsys
  ELSE mkdir_all(mkdir(fsys, names[i]), names, i + 1)

create_category_folders(fsys, categories) ==
  mkdir(mkdir_all(fsys, [i \in 1..Len(categories) |-> categories[i].category], 1),
        Others)

CreatesFoldersMutant(dry) == TRUE

(* line 67: if not dry_run *)
CreatesFolders(dry) == ~dry

(* ---- vibed: collision resolution, lines 76-85 ---- *)
FirstCounter == 1

NewNameMutant(base_name, extension, counter) ==
  base_name \o <<"_">> \o str(counter) \o lower(extension)

(* f"{base_name}_{counter}{extension}" *)
NewName(base_name, extension, counter) ==
  base_name \o <<"_">> \o str(counter) \o extension

RECURSIVE probe(_, _, _, _, _)
probe(fsys, folder, base_name, extension, counter) ==
  LET new_name == NewName(base_name, extension, counter)
  IN IF exists(fsys, folder, new_name)
     THEN probe(fsys, folder, base_name, extension, counter + 1)
     ELSE new_name

DestinationNameMutant(fsys, folder, name) == name

(* the name of destination_path once lines 76-85 are done *)
DestinationName(fsys, folder, name) ==
  IF exists(fsys, folder, name)
  THEN probe(fsys, folder, stem(name), suffix(name), FirstCounter)
  ELSE name

(* ---- planned: lookups in folder_mapping ---- *)
MappingHas(ext) == \E i \in 1..Len(folder_mapping) : folder_mapping[i].ext = ext

MappingGet(ext) ==
  folder_mapping[CHOOSE i \in 1..Len(folder_mapping) : folder_mapping[i].ext = ext].folder

(* line 37: if not target_path.exists() *)
TargetFree(fsys, folder, name) == ~exists(fsys, folder, name)

(* defaultdict(list): moved_files[folder].append(name) *)
AppendTo(mf, folder, name) ==
  IF folder \in DOMAIN mf THEN [mf EXCEPT ![folder] = Append(@, name)]
  ELSE mf @@ (folder :> <<name>>)

RECURSIVE SumLen(_, _)
SumLen(mf, keys) ==
  IF keys = {} THEN 0
  ELSE LET k == CHOOSE x \in keys : TRUE
       IN Len(mf[k]) + SumLen(mf, keys \ {k})

AfterMoveErrorMutant == "error"

(* the except clause of both organizers logs and lets the loop go on *)
AfterMoveError == "scan"

(* ---- the directories the model starts from ---- *)
a_pdf == <<"a",".","p","d","f">>
a_1_pdf == <<"a","_","1",".","p","d","f">>
A_PDF == <<"A",".","P","D","F">>
a_q == <<"a",".","q">>

TopNames == {a_pdf, a_1_pdf, A_PDF, a_q}

PreFiles == {Entry(Documents, a_pdf, "file"), Entry(Documents, a_1_pdf, "file"),
             Entry(Documents, A_PDF, "file")}

InitialDirs ==
  {tops \cup pre \cup {Entry(TOP, c, "dir") : c \in {p.parent : p \in pre}} :
     tops \in {{Entry(TOP, n, "file") : n \in ns} :
                 ns \in {s \in SUBSET TopNames : Cardinality(s) <= MaxTop}},
     pre \in {s \in SUBSET PreFiles : Cardinality(s) <= MaxPre}}

HomeChoices == {{}, {"Downloads"}, {"downloads"}}

(* ---- vibed: get_downloads_folder ---- *)
get_downloads_folder(homeDirs) ==
  IF "Downloads" \in homeDirs THEN "Downloads"
  ELSE IF "downloads" \in homeDirs THEN "downloads"
  ELSE "raise"

VARIABLES
  prog,         \* "planned" or "vibed"
  dryRun,       \* dry_run of the current call (vibed)
  home,         \* which of ~/Downloads, ~/downloads exist
  home0,        \* home at construction
  target,       \* the directory being organized
  fs,           \* entries under the target directory
  fs0,          \* fs at construction
  before,       \* fs when the current call started
  pc,           \* "main", "organize", "scan", "done", "error", "notfound"
  run,          \* number of the current call
  todo,         \* the rest of the listing the loop iterates over
  files_moved,  \* vibed line 70
  moved_files,  \* planned line 23
  log,          \* the messages logged / printed per file
  hist          \* one record per finished call, with its final summary

vars == <<prog, dryRun, home, home0, target, fs, fs0, before, pc, run, todo,
          files_moved, moved_files, log, hist>>

Init ==
  /\ prog \in {"planned", "vibed"}
  /\ home \in HomeChoices
  /\ home0 = home
  /\ pc \in IF prog = "planned" THEN {"organize"} ELSE {"main", "organize"}
  /\ dryRun \in IF prog = "planned" THEN {FALSE} ELSE BOOLEAN
  /\ target = IF pc = "main" THEN "unset" ELSE "Downloads"
  /\ fs \in IF (IF pc = "main" THEN get_downloads_folder(home) ELSE target) \in home
            THEN InitialDirs ELSE {{}}
  /\ fs0 = fs
  /\ before = fs
  /\ run = 1
  /\ todo = <<>>
  /\ files_moved = 0
  /\ moved_files = <<>>
  /\ log = <<>>
  /\ hist = <<>>

(* vibed main(): get_downloads_folder, then the chosen mode *)
VibedMain ==
  /\ prog = "vibed" /\ pc = "main"
  /\ LET d == get_downloads_folder(home)
     IN IF d = "raise"
        THEN pc' = "error" /\ UNCHANGED target
        ELSE pc' = "organize" /\ target' = d
  /\ UNCHANGED <<prog, dryRun, home, home0, fs, fs0, before, run, todo,
                 files_moved, moved_files, log, hist>>

(* vibed organize_downloads, lines 65-72: folders, counter, listing *)
VibedBegin ==
  /\ prog = "vibed" /\ pc = "organize"
  /\ before' = fs
  /\ files_moved' = 0
  /\ IF CreatesFolders(dryRun)
     THEN IF MkdirRaises(home, target)
          THEN pc' = "error" /\ UNCHANGED <<fs, home, todo>>
          ELSE /\ fs' = create_category_folders(fs, get_file_categories)
               /\ home' = home \cup {target}
               /\ \E listing \in iterdir(fs') : todo' = next_file(fs', listing)
               /\ pc' = "scan"
     ELSE IF target \notin home
          THEN pc' = "error" /\ UNCHANGED <<fs, home, todo>>
          ELSE /\ \E listing \in iterdir(fs) : todo' = next_file(fs, listing)
               /\ pc' = "scan"
               /\ UNCHANGED <<fs, home>>
  /\ UNCHANGED <<prog, dryRun, home0, target, fs0, run, moved_files, log, hist>>

LogRec(kind, name, category, dest) ==
  [run |-> run, kind |-> kind, name |-> name,
   orig |-> (CHOOSE e \in fs : e.parent = TOP /\ e.name = name).orig,
   srckind |-> (CHOOSE e \in fs : e.parent = TOP /\ e.name = name).kind,
   category |-> category, dest |-> dest, taken |-> NamesIn(fs, category)]

(* vibed organize_downloads, the loop of lines 72-95 up to and including *)
(* the body run on the next regular file of the listing                  *)
VibedStep ==
  /\ prog = "vibed" /\ pc = "scan"
  /\ todo # <<>>
  /\ \E ok \in MoveOutcomes(log) :
     LET item == Head(todo)
         category == categorize_file(item, get_file_categories)
         dest == DestinationName(fs, category, item)
     IN /\ IF dryRun
           THEN /\ log' = Append(log, LogRec("would", item, category, dest))
                /\ UNCHANGED <<fs, files_moved, pc>>
           ELSE IF ok /\ MoveCanSucceed(fs, category)
                THEN /\ fs' = move(fs, item, category, dest)
                     /\ log' = Append(log, LogRec("moved", item, category, dest))
                     /\ files_moved' = files_moved + 1
                     /\ UNCHANGED pc
                ELSE /\ log' = Append(log, LogRec("error", item, category, dest))
                     /\ pc' = AfterMoveError
                     /\ UNCHANGED <<fs, files_moved>>
        /\ todo' = next_file(fs', Tail(todo))
  /\ UNCHANGED <<prog, dryRun, home, home0, target, fs0, before, run, moved_files, hist>>

(* vibed organize_downloads, lines 97-100: the final message *)
VibedFinish ==
  /\ prog = "vibed" /\ pc = "scan" /\ todo = <<>>
  /\ pc' = "done"
  /\ hist' = Append(hist, [dry |-> dryRun, before |-> before, after |-> fs,
                           total |-> files_moved, per |-> <<>>])
  /\ UNCHANGED <<prog, dryRun, home, home0, target, fs, fs0, before, run, todo,
                 files_moved, moved_files, log>>

(* planned organize_downloads, lines 9-29 *)
PlannedBegin ==
  /\ prog = "planned" /\ pc = "organize"
  /\ before' = fs
  /\ moved_files' = <<>>
  /\ IF target \notin home
     THEN pc' = "notfound" /\ UNCHANGED <<fs, todo>>
     ELSE /\ fs' = mkdir_all(fs, [i \in 1..Len(folder_mapping) |-> folder_mapping[i].folder], 1)
          /\ \E listing \in iterdir(fs') : todo' = next_file(fs', listing)
          /\ pc' = "scan"
  /\ UNCHANGED <<prog, dryRun, home, home0, target, fs0, run, files_moved, log, hist>>

(* planned organize_downloads, the loop of lines 29-43 up to and *)
(* including the body run on the next regular file of the listing *)
PlannedStep ==
  /\ prog = "planned" /\ pc = "scan"
  /\ todo # <<>>
  /\ \E ok \in MoveOutcomes(log) :
     LET file_path == Head(todo)
         file_ext == lower(suffix(file_path))
     IN /\ IF MappingHas(file_ext) /\ TargetFree(fs, MappingGet(file_ext), file_path)
           THEN LET target_folder == MappingGet(file_ext)
                IN IF ok /\ MoveCanSucceed(fs, target_folder)
                   THEN /\ fs' = move(fs, file_path, target_folder, file_path)
                        /\ moved_files' = AppendTo(moved_files, target_folder, file_path)
                        /\ log' = Append(log, LogRec("moved", file_path, target_folder, file_path))
                        /\ UNCHANGED pc
                   ELSE /\ log' = Append(log, LogRec("error", file_path, target_folder, file_path))
                        /\ pc' = AfterMoveError
                        /\ UNCHANGED <<fs, moved_files>>
           ELSE UNCHANGED <<fs, moved_files, log, pc>>
        /\ todo' = next_file(fs', Tail(todo))
  /\ UNCHANGED <<prog, dryRun, home, home0, target, fs0, before, run, files_moved, hist>>

(* planned organize_downloads, lines 45-52: the summary *)
PlannedFinish ==
  /\ prog = "planned" /\ pc = "scan" /\ todo = <<>>
  /\ pc' = "done"
  /\ hist' = Append(hist, [dry |-> FALSE, before |-> before, after |-> fs,
                           total |-> SumLen(moved_files, DOMAIN moved_files),
                           per |-> [c \in DOMAIN moved_files |-> Len(moved_files[c])]])
  /\ UNCHANGED <<prog, dryRun, home, home0, target, fs, fs0, before, run, todo,
                 files_moved, moved_files, log>>

(* the user runs the organizer again, live, on the same directory *)
RunAgain ==
  /\ pc = "done" /\ run < MaxRuns
  /\ run' = run + 1
  /\ pc' = "organize"
  /\ dryRun' = FALSE
  /\ UNCHANGED <<prog, home, home0, target, fs, fs0, before, todo,
                 files_moved, moved_files, log, hist>>

Next ==
  \/ VibedMain
  \/ VibedBegin
  \/ VibedStep
  \/ VibedFinish
  \/ PlannedBegin
  \/ PlannedStep
  \/ PlannedFinish
  \/ RunAgain

Spec == Init /\ [][Next]_vars

(* ---- vocabulary of the properties ---- *)
Records(r) == {log[i] : i \in {k \in 1..Len(log) : log[k].run = r}}

Failed(r) == {m \in Records(r) : m.kind = "error"}

Done(r) == {m \in Records(r) : m.kind \in {"moved", "would"}}

TopFiles(fsys) == {e \in fsys : e.parent = TOP /\ e.kind = "file"}

(* the directory as run r left it, or as it is now while run r is going on *)
AfterOf(r) == IF r <= Len(hist) THEN hist[r].after ELSE fs

(* the Category Table of the running organizer, as a relation *)
Mapped(ext, c) ==
  IF prog = "vibed"
  THEN \E i \in 1..Len(get_file_categories) :
         get_file_categories[i].category = c /\ ext \in get_file_categories[i].extensions
  ELSE \E i \in 1..Len(folder_mapping) :
         folder_mapping[i].folder = c /\ folder_mapping[i].ext = ext

(* the organizer was pointed at a directory that does not exist *)
MissingTarget ==
  IF target = "unset" THEN get_downloads_folder(home0) = "raise"
  ELSE target \notin home0

(* stem_N.ext, ext being the suffix the name came with *)
Numbered(name, N) == stem(name) \o <<"_">> \o str(N) \o suffix(name)

(* C1: after a live run in which no move failed, every regular file that   *)
(* was at the top level is in the folder of the category its lower-cased   *)
(* extension maps to, or in Others when no category has the extension, and *)
(* none of them is at the top level any more.                              *)
C1_LiveRunSortsEveryFile ==
  \A r \in 1..Len(hist) :
    (~hist[r].dry /\ Failed(r) = {}) =>
      \A e \in TopFiles(hist[r].before) :
        LET ext == lower(suffix(e.name))
        IN /\ ~\E x \in hist[r].after : x.orig = e.orig /\ x.parent = TOP
           /\ \E x \in hist[r].after :
                /\ x.orig = e.orig
                /\ \/ Mapped(ext, x.parent)
                   \/ (~\E c \in Range(FolderNames) : Mapped(ext, c)) /\ x.parent = Others

(* C1 holds of the vibed organizer taken alone *)
C1_VibedOnly == prog = "vibed" => C1_LiveRunSortsEveryFile

C3_DryRunIsPure ==
  /\ dryRun => (fs = fs0 /\ home = home0)
  /\ \A r \in 1..Len(hist) : hist[r].dry => hist[r].after = hist[r].before

C3_Witness ==
  /\ pc = "done" /\ dryRun
  /\ Cardinality(Done(1)) >= 2
  /\ ~is_dir(fs, TOP, Others)

(* C4: the dry run reports what the live run that follows it on the        *)
(* unchanged directory does: the same count of files, and for every file   *)
(* the same category and the same resolved destination name.               *)
C4_DryRunReportsLiveRun ==
  (Len(hist) >= 2 /\ hist[1].dry /\ ~hist[2].dry /\ Failed(2) = {}) =>
     /\ hist[1].total = hist[2].total
     /\ {<<m.name, m.category, m.dest>> : m \in Done(1)}
          = {<<m.name, m.category, m.dest>> : m \in Done(2)}

(* the run never gets past its start when the directory is missing, and *)
(* nothing is created, moved or reported                                 *)
C5_MissingDirInv ==
  MissingTarget =>
    /\ fs = {} /\ home = home0
    /\ log = <<>> /\ hist = <<>>
    /\ pc \in {"main", "organize", "error", "notfound"}

(* C5: pointed at a directory that does not exist, the run ends in an      *)
(* error or not-found outcome and leaves nothing behind: no folder is      *)
(* created, no file is moved, the directory still does not exist; the step *)
(* the run takes from its start is the one into that outcome.              *)
C5_MissingDirectoryIsFatal ==
  /\ [](C5_MissingDirInv)
  /\ [][(MissingTarget /\ pc \in {"main", "organize"})
          => pc' \in {"error", "notfound"}]_vars

C5_Witness ==
  /\ prog = "vibed" /\ ~dryRun /\ target = "Downloads" /\ home0 = {"downloads"}
  /\ pc = "error"

(* only a missing directory ends a run in an error; in a finished live run *)
(* every file of the listing either failed to move, or was moved to its    *)
(* resolved destination, or is one the planned organizer does not handle   *)
C6_PassInv ==
  /\ pc = "error" => MissingTarget
  /\ \A r \in 1..Len(hist) : ~hist[r].dry =>
       \A e \in TopFiles(hist[r].before) :
         \/ \E m \in Failed(r) : m.orig = e.orig
         \/ \E m \in Done(r) :
              /\ m.orig = e.orig /\ m.kind = "moved"
              /\ \E x \in hist[r].after :
                   x.orig = e.orig /\ x.parent = m.category /\ x.name = m.dest
         \/ /\ prog = "planned"
            /\ \/ ~MappingHas(lower(suffix(e.name)))
               \/ exists(hist[r].before, MappingGet(lower(suffix(e.name))), e.name)

(* C6: a move that fails never aborts a live pass: every other file the    *)
(* organizer handles is still classified and moved, and the pass goes on   *)
(* to its summary: every step of the pass either consumes the listing and  *)
(* stays in the pass, or is the summary taken once the listing is empty.   *)
C6_MoveFailureNeverAborts ==
  /\ [](C6_PassInv)
  /\ [][pc = "scan" =>
          \/ pc' = "scan" /\ Len(todo') < Len(todo)
          \/ pc' = "done" /\ todo = <<>>]_vars

C6_Witness ==
  /\ pc = "done"
  /\ \E i, j \in 1..Len(log) :
       /\ i < j /\ log[i].run = 1 /\ log[j].run = 1
       /\ log[i].kind = "error" /\ log[j].kind = "moved"

(* C7: in the live run that follows a live run, no file the first run      *)
(* moved is moved again, each of them stays in the folder and under the    *)
(* name the first run gave it, and no category folder is ever classified   *)
(* or moved.                                                               *)
C7_SecondRunLeavesMovedFiles ==
  /\ \A i \in 1..Len(log) : log[i].srckind = "file"
  /\ \A c \in Range(FolderNames) :
       is_dir(fs0, TOP, c) => is_dir(fs, TOP, c)
  /\ \A r1, r2 \in 1..run :
       (r1 < r2 /\ r1 <= Len(hist) /\ ~hist[r1].dry) =>
         \A m \in Records(r1) : m.kind = "moved" =>
           /\ ~\E n \in Records(r2) : n.orig = m.orig
           /\ \E x \in AfterOf(r2) :
                x.orig = m.orig /\ x.parent = m.category /\ x.name = m.dest

C7_Witness ==
  /\ pc = "done" /\ run = 2 /\ Len(hist) = 2 /\ ~hist[1].dry
  /\ \E m \in Records(1) : m.kind = "moved"
  /\ \E m \in Records(1) : m.kind = "error" /\
        \E n \in Records(2) : n.kind = "moved" /\ n.orig = m.orig

(* C8: the summary of a run gives the files moved (that would be moved, in *)
(* a dry run) per category and in total: each category's count is the      *)
(* number of files moved into it, the total is their sum, and a file whose *)
(* move failed is counted nowhere.                                         *)
C8_SummaryCountsMoves ==
  \A r \in 1..Len(hist) :
    /\ hist[r].total = Cardinality(Done(r))
    /\ \A c \in Range(FolderNames) :
         LET n == Cardinality({m \in Done(r) : m.category = c})
         IN IF n = 0 THEN (c \in DOMAIN hist[r].per => hist[r].per[c] = 0)
            ELSE c \in DOMAIN hist[r].per /\ hist[r].per[c] = n

(* C8 holds of the planned organizer taken alone *)
C8_PlannedOnly == prog = "planned" => C8_SummaryCountsMoves

(* C9: within one pass, live or dry, no two files are given the same       *)
(* resolved destination (same category, same resolved name).               *)
C9_DestinationsDistinctInPass ==
  \A i, j \in 1..Len(log) :
    (i # j /\ log[i].run = log[j].run) =>
       ~(log[i].category = log[j].category /\ log[i].dest = log[j].dest)

(* C10: the resolved name of a file is its own name when nothing is at     *)
(* category/name, and otherwise stem_N.ext for the smallest N >= 1 with    *)
(* nothing at category/stem_N.ext; it is never a name that exists when the *)
(* check is made.                                                          *)
C10_ResolvedNameIsFirstFree ==
  \A i \in 1..Len(log) :
    LET m == log[i]
    IN prog = "vibed" =>
         /\ m.dest \notin m.taken
         /\ m.name \notin m.taken => m.dest = m.name
         /\ m.name \in m.taken =>
              \E N \in 1..(Cardinality(m.taken) + 1) :
                /\ m.dest = Numbered(m.name, N)
                /\ \A M \in 1..(N - 1) : Numbered(m.name, M) \in m.taken

C10_Witness ==
  \E i \in 1..Len(log) :
    /\ log[i].name = a_pdf /\ log[i].kind = "moved"
    /\ {a_pdf, a_1_pdf} \subseteq log[i].taken
    /\ log[i].dest = <<"a","_","2",".","p","d","f">>

=============================================================================
